---- MODULE Spec2Model ----
(***************************************************************************)
(* Model of doorman (doorman_ladon.go): the per-audience policy registry   *)
(* of LadonDoorman, its (re)load, the decision IsAllowed on top of the     *)
(* ladon warden, the tag expansion and the JWT identity middleware.        *)
(***************************************************************************)
EXTENDS Integers, Sequences, FiniteSets, TLC

VARIABLES
  configs,      \* doorman.configs: audience -> *Configuration (the live registry)
  auditLogger,  \* doorman._auditLogger # nil
  call,         \* the handler call that completed last, with its inputs and results
  loader,       \* the goroutine running LoadPolicies step by step
  reader        \* a goroutine running IsAllowed step by step

vars == <<configs, auditLogger, call, loader, reader>>

(***************************************************************************)
(* Bounds of the model.                                                    *)
(***************************************************************************)
MaxPolicies == 2     \* policies in one configuration file
MaxPrincipals == 2   \* principals in one request
MaxGroups == 2       \* groups in the claims of one token

(***************************************************************************)
(* Small helpers.                                                          *)
(***************************************************************************)
SeqsUpTo(S, n) == UNION {[1..k -> S] : k \in 0..n}

Range(s) == {s[k] : k \in DOMAIN s}

Perms(S) == {f \in [1..Cardinality(S) -> S] : \A a, b \in 1..Cardinality(S) : a # b => f[a] # f[b]}

EmptyMap == [x \in {} |-> x]

(***************************************************************************)
(* Values the inputs are drawn from.                                       *)
(***************************************************************************)
PrincipalUniverse == {"userid:42", "userid:99", "group:admins"}

Resources == {"doc:1"}

Actions == {"read", "write"}

\* A request context is a set of <<key, value>> pairs, at most one per key.
Contexts == {{}, {<<"owner", "alice">>}, {<<"owner", "bob">>}}

Audiences == {"svc1", "svc2", "svc3"}

\* ladon.DefaultPolicy; Conditions is a set of <<key, equals>> pairs, each a
\* StringEqualCondition on the context value of that key.
Policy(id, effect, subjects, resources, actions, conditions) == [ID |-> id, Effect |-> effect, Subjects |-> subjects, Resources |-> resources, Actions |-> actions, Conditions |-> conditions]

PolicyUniverse ==
  { Policy("allow42", "allow", <<"userid:42">>, <<"doc:1">>, <<"read">>, {}),
    Policy("denyowner", "deny", <<"<.*>">>, <<"doc:1">>, <<"read">>, {<<"owner", "alice">>}),
    Policy("deny99", "deny", <<"userid:99">>, <<"<.*>">>, <<"read", "write">>, {}),
    Policy("admins", "allow", <<"tag:admins", "group:admins">>, <<"doc:1">>, <<"<.*>">>, {}),
    Policy("allow42", "deny", <<"userid:42">>, <<"doc:1">>, <<"write">>, {}) }

DefaultPolicies == <<Policy("admins", "allow", <<"tag:admins", "group:admins">>, <<"doc:1">>, <<"<.*>">>, {})>>

\* The tags of a source file, as the YAML text declares them: a sequence of
\* <<tag name, member principals>>.
DefaultTags == << <<"admins", <<"userid:42", "group:admins">> >>, <<"staff", <<"userid:42">> >> >>

TagsUniverse ==
  { <<>>,
    << <<"admins", <<"userid:42">> >> >>,
    DefaultTags,
    << <<"staff", <<>> >>, <<"admins", <<"userid:99", "userid:99">> >> >> }

\* What a policies source may hold when LoadPolicies reads it.
ConfigFile(audience, tags, policies) == [kind |-> "config", Audience |-> audience, Tags |-> tags, Policies |-> policies]

BadFiles ==
  { [kind |-> "unreadable"], [kind |-> "empty"], [kind |-> "malformed"],
    ConfigFile("", DefaultTags, DefaultPolicies) }

\* doorman.policiesSources, fixed by New.
policiesSources == <<"a.yaml", "b.yaml">>

\* What each source may hold: a.yaml the configuration of svc1 in all its
\* variants, b.yaml the one of svc2 or of svc3; each of them may be bad, and
\* each may name the audience of the other.
SourceContents ==
  << BadFiles
     \cup {ConfigFile("svc1", DefaultTags, ps) : ps \in SeqsUpTo(PolicyUniverse, MaxPolicies)}
     \cup {ConfigFile("svc1", t, DefaultPolicies) : t \in TagsUniverse}
     \cup {ConfigFile("svc2", DefaultTags, <<>>)},
     BadFiles
     \cup {ConfigFile("svc2", t, <<>>) : t \in {<<>>, DefaultTags}}
     \cup {ConfigFile("svc2", <<>>, <<Policy("allow42", "allow", <<"userid:42">>, <<"doc:1">>, <<"read">>, {})>>)}
     \cup {ConfigFile("svc1", <<>>, <<>>), ConfigFile("svc3", <<>>, DefaultPolicies)} >>

\* The Origin header of a request; Header.Get gives "" when it is absent.
Origins == {"", "https://svc1/", "https://other/"}

ClaimsUniverse == [Subject : {"42"}, Audience : {<<>>, <<"https://svc1/">>, <<"https://svc2/", "https://svc1/">>}, Email : {"", "a@x.org"}, Groups : SeqsUpTo({"admins", "staff"}, MaxGroups)]

\* The sources and the requests of the runs with a reload in progress.
ConcFiles ==
  { [kind |-> "malformed"],
    ConfigFile("svc1", <<>>, <<Policy("allow42", "allow", <<"userid:42">>, <<"doc:1">>, <<"read">>, {})>>),
    ConfigFile("svc1", <<>>, <<Policy("deny99", "deny", <<"userid:99">>, <<"<.*>">>, <<"read", "write">>, {})>>),
    ConfigFile("svc1", << <<"admins", <<"userid:99">> >> >>, DefaultPolicies),
    ConfigFile("svc2", <<>>, <<>>) }

\* The principals a flow of ExpandPrincipals and IsAllowed starts from.
ConcPrincipals == {<<"userid:42">>, <<"userid:99">>}

ConcRequests == [Principals : {<<"userid:42">>, <<"userid:99", "userid:42">>}, Resource : Resources, Action : {"read"}, Context : {{}}]

Requests == [Principals : SeqsUpTo(PrincipalUniverse, MaxPrincipals), Resource : Resources, Action : Actions, Context : Contexts]

(***************************************************************************)
(* loadConfiguration: one source file to a Configuration, or an error.     *)
(***************************************************************************)
\* Unmarshalling the tags into the Go map Tags: the declaration order is not
\* kept, and a name declared twice keeps its last members.
RECURSIVE UnmarshalTags(_, _, _)
UnmarshalTags(declared, k, tags) ==
  IF k > Len(declared) THEN tags
  ELSE UnmarshalTags(declared, k + 1, (declared[k][1] :> declared[k][2]) @@ tags)

\* The names of the tags in declaration order. No field of Configuration
\* holds it: the model keeps it beside the map to state properties of the order.
DeclaredTags(declared) == [k \in 1..Len(declared) |-> declared[k][1]]

\* loadConfiguration that refuses a configuration without policies.
loadConfigurationStrict(file) ==
  IF file.kind = "unreadable" THEN [err |-> "read"]
  ELSE IF file.kind = "empty" THEN [err |-> "empty file"]
  ELSE IF file.kind = "malformed" THEN [err |-> "unmarshal"]
  ELSE IF file.Audience = "" THEN [err |-> "empty audience"]
  ELSE IF file.Policies = <<>> THEN [err |-> "no policies"]
  ELSE [err |-> "", config |-> [Audience |-> file.Audience, Tags |-> UnmarshalTags(file.Tags, 1, EmptyMap), Policies |-> file.Policies, declared |-> DeclaredTags(file.Tags)]]

loadConfiguration(file) ==
  IF file.kind = "unreadable" THEN [err |-> "read"]
  ELSE IF file.kind = "empty" THEN [err |-> "empty file"]
  ELSE IF file.kind = "malformed" THEN [err |-> "unmarshal"]
  ELSE IF file.Audience = "" THEN [err |-> "empty audience"]
  ELSE [err |-> "", config |-> [Audience |-> file.Audience, Tags |-> UnmarshalTags(file.Tags, 1, EmptyMap), Policies |-> file.Policies, declared |-> DeclaredTags(file.Tags)]]

(***************************************************************************)
(* The memory manager of ladon: Create refuses an ID it already holds.     *)
(***************************************************************************)
\* ManagerCreateAll with Create replacing the policy that holds the ID.
RECURSIVE ManagerCreateAllOverwrite(_, _, _)
ManagerCreateAllOverwrite(policies, k, manager) ==
  IF k > Len(policies) THEN [err |-> "", manager |-> manager]
  ELSE ManagerCreateAllOverwrite(policies, k + 1, (policies[k].ID :> policies[k]) @@ manager)

RECURSIVE ManagerCreateAll(_, _, _)
ManagerCreateAll(policies, k, manager) ==
  IF k > Len(policies) THEN [err |-> "", manager |-> manager]
  ELSE IF policies[k].ID \in DOMAIN manager THEN [err |-> "Policy exists"]
  ELSE ManagerCreateAll(policies, k + 1, manager @@ (policies[k].ID :> policies[k]))

(***************************************************************************)
(* LoadPolicies, the body of the loop for one source: the local map        *)
(* `configs` of the function after the source, or the error returned.      *)
(***************************************************************************)
\* LoadSource with one memory manager for all the audiences: the store of a
\* configuration starts from the policies of the configurations before it.
LoadSourceSharedManager(local, file) ==
  LET loaded == loadConfiguration(file)
      shared == UNION {{local[a].ladon[id] : id \in DOMAIN local[a].ladon} : a \in DOMAIN local}
  IN
  IF loaded.err # "" THEN [err |-> loaded.err]
  ELSE LET created == ManagerCreateAll(loaded.config.Policies, 1, [id \in {q.ID : q \in shared} |-> CHOOSE q \in shared : q.ID = id]) IN
       IF created.err # "" THEN [err |-> created.err]
       ELSE IF loaded.config.Audience \in DOMAIN local THEN [err |-> "duplicated audience"]
       ELSE [err |-> "", configs |-> local @@ (loaded.config.Audience :> [Audience |-> loaded.config.Audience, Tags |-> loaded.config.Tags, Policies |-> loaded.config.Policies, declared |-> loaded.config.declared, ladon |-> created.manager])]

LoadSource(local, file) ==
  LET loaded == loadConfiguration(file) IN
  IF loaded.err # "" THEN [err |-> loaded.err]
  ELSE LET created == ManagerCreateAll(loaded.config.Policies, 1, EmptyMap) IN
       IF created.err # "" THEN [err |-> created.err]
       ELSE IF loaded.config.Audience \in DOMAIN local THEN [err |-> "duplicated audience"]
       ELSE [err |-> "", configs |-> local @@ (loaded.config.Audience :> [Audience |-> loaded.config.Audience, Tags |-> loaded.config.Tags, Policies |-> loaded.config.Policies, declared |-> loaded.config.declared, ladon |-> created.manager])]

RECURSIVE LoadSources(_, _, _)
LoadSources(files, k, local) ==
  IF k > Len(files) THEN [err |-> "", configs |-> local, at |-> 0]
  ELSE LET step == LoadSource(local, files[k]) IN
       IF step.err # "" THEN [err |-> step.err, configs |-> local, at |-> k]
       ELSE LoadSources(files, k + 1, step.configs)

\* LoadPoliciesResult with the sources stored into the live map as they load.
LoadPoliciesResultPartial(live, files) ==
  LET built == LoadSources(files, 1, EmptyMap) IN
  [err |-> built.err, configs |-> built.configs, at |-> built.at]

\* LoadPoliciesResult that keeps the live audiences the sources do not name.
LoadPoliciesResultMerge(live, files) ==
  LET built == LoadSources(files, 1, EmptyMap) IN
  IF built.err # "" THEN [err |-> built.err, configs |-> live, at |-> built.at]
  ELSE [err |-> "", configs |-> built.configs @@ live, at |-> 0]

\* The value of doorman.configs after LoadPolicies returns, and what it returns.
LoadPoliciesResult(live, files) ==
  LET built == LoadSources(files, 1, EmptyMap) IN
  IF built.err # "" THEN [err |-> built.err, configs |-> live, at |-> built.at]
  ELSE [err |-> "", configs |-> built.configs, at |-> 0]

\* doorman.auditLogger() is reached as soon as the first source parses.
LoadCreatesLogger(files) == Len(files) > 0 /\ loadConfiguration(files[1]).err = ""

(***************************************************************************)
(* ladon: the regexp matcher, the conditions and the warden's decision.    *)
(***************************************************************************)
\* The patterns that hold the start delimiter '<' are compiled to a regular
\* expression; every other pattern is compared as a string.
HasRegexp(pattern) == pattern \in {"<.*>"}

RegexpMatch(pattern, needle) == pattern = "<.*>"

Matches(haystack, needle) == \E k \in 1..Len(haystack) : IF HasRegexp(haystack[k]) THEN RegexpMatch(haystack[k], needle) ELSE haystack[k] = needle

\* StringEqualCondition.Fulfills on the context value of the condition's key:
\* a missing key gives nil, which is no string.
passesConditions(p, r) == \A cond \in p.Conditions : \E kv \in r.Context : kv[1] = cond[1] /\ kv[2] = cond[2]

PolicyApplies(p, r) ==
  /\ Matches(p.Actions, r.Action)
  /\ Matches(p.Subjects, r.Subject)
  /\ Matches(p.Resources, r.Resource)
  /\ passesConditions(p, r)

AllowAccess(p) == p.Effect = "allow"

\* DoPoliciesAllow with the first policy that applies deciding alone.
DoPoliciesAllowFirstMatch(r, policies, k, allowed, deciders) ==
  LET applying == {j \in k..Len(policies) : PolicyApplies(policies[j], r)} IN
  IF applying = {} THEN [err |-> "ErrRequestDenied", deciders |-> deciders]
  ELSE LET first == CHOOSE j \in applying : \A other \in applying : j <= other IN
       IF AllowAccess(policies[first]) THEN [err |-> "", deciders |-> Append(deciders, policies[first].ID)]
       ELSE [err |-> "ErrRequestForcefullyDenied", deciders |-> Append(deciders, policies[first].ID)]

\* DoPoliciesAllow with a deny policy deciding only when no allow policy applies.
DoPoliciesAllowAllowWins(r, policies, k, allowed, deciders) ==
  LET applying == {j \in k..Len(policies) : PolicyApplies(policies[j], r)} IN
  IF \E j \in applying : AllowAccess(policies[j]) THEN [err |-> "", deciders |-> deciders]
  ELSE IF applying = {} THEN [err |-> "ErrRequestDenied", deciders |-> deciders]
  ELSE [err |-> "ErrRequestForcefullyDenied", deciders |-> deciders]

\* DoPoliciesAllow over the candidates in the order the manager returned them.
RECURSIVE DoPoliciesAllow(_, _, _, _, _)
DoPoliciesAllow(r, policies, k, allowed, deciders) ==
  IF k > Len(policies) THEN
    IF ~allowed THEN [err |-> "ErrRequestDenied", deciders |-> deciders]
    ELSE [err |-> "", deciders |-> deciders]
  ELSE IF ~PolicyApplies(policies[k], r) THEN DoPoliciesAllow(r, policies, k + 1, allowed, deciders)
  ELSE IF ~AllowAccess(policies[k]) THEN [err |-> "ErrRequestForcefullyDenied", deciders |-> Append(deciders, policies[k].ID)]
  ELSE DoPoliciesAllow(r, policies, k + 1, TRUE, Append(deciders, policies[k].ID))

\* FindRequestCandidates: every policy of the manager, in the order `order`
\* (a permutation of the IDs: the manager ranges over a Go map).
FindRequestCandidates(manager, order) == [k \in 1..Len(order) |-> manager[order[k]]]

\* One record of the audit logger: logRequest(allowed, r, policies).
logRequest(allowed, r, policies) == [allowed |-> allowed, subject |-> r.Subject, resource |-> r.Resource, action |-> r.Action, policies |-> policies]

\* ladon.IsAllowed(r): the decision and the one record it hands to the
\* AuditLogger (LogGrantedAccessRequest or LogRejectedAccessRequest).
LadonIsAllowed(manager, r, order) ==
  LET d == DoPoliciesAllow(r, FindRequestCandidates(manager, order), 1, FALSE, <<>>) IN
  [err |-> d.err, record |-> logRequest(d.err = "", r, d.deciders)]

(***************************************************************************)
(* LadonDoorman.IsAllowed.                                                 *)
(***************************************************************************)
ladonRequest(request, subject) == [Subject |-> subject, Resource |-> request.Resource, Action |-> request.Action, Context |-> {<<kv[1], kv[2]>> : kv \in request.Context}]

\* ladon.IsAllowed on the i-th principal, for every order in which the
\* manager may hand out its policies (it ranges over a Go map).
LadonOutcomes(c, request, i) == {LadonIsAllowed(c.ladon, ladonRequest(request, request.Principals[i]), order) : order \in Perms(DOMAIN c.ladon)}

\* IsAllowedLoop that grants what no principal was refused.
IsAllowedLoopFailOpen(c, request, i, audit) ==
  IF \E j \in i..Len(request.Principals) : \E d \in LadonOutcomes(c, request, j) : d.err # ""
  THEN {[ret |-> FALSE, audit |-> audit, evaluated |-> Len(request.Principals)]}
  ELSE {[ret |-> TRUE, audit |-> audit, evaluated |-> Len(request.Principals)]}

\* IsAllowedLoop that goes on to the last principal before it answers.
RECURSIVE IsAllowedLoopNoBreak(_, _, _, _)
IsAllowedLoopNoBreak(c, request, i, audit) ==
  IF i > Len(request.Principals) THEN {[ret |-> \E k \in 1..Len(audit) : audit[k].allowed, audit |-> audit, evaluated |-> i - 1]}
  ELSE UNION {IsAllowedLoopNoBreak(c, request, i + 1, Append(audit, d.record)) : d \in LadonOutcomes(c, request, i)}

\* IsAllowedLoop that lets the first principal it tries decide alone.
IsAllowedLoopFirstOnly(c, request, i, audit) ==
  IF i > Len(request.Principals) THEN {[ret |-> FALSE, audit |-> audit, evaluated |-> i - 1]}
  ELSE {[ret |-> d.err = "", audit |-> Append(audit, d.record), evaluated |-> i] : d \in LadonOutcomes(c, request, i)}

\* The loop over the principals, from principal i on, with the audit records
\* written so far: the outcomes the call may end with.
RECURSIVE IsAllowedLoop(_, _, _, _)
IsAllowedLoop(c, request, i, audit) ==
  IF i > Len(request.Principals) THEN {[ret |-> FALSE, audit |-> audit, evaluated |-> i - 1]}
  ELSE UNION {IF d.err = "" THEN {[ret |-> TRUE, audit |-> Append(audit, d.record), evaluated |-> i]}
              ELSE IsAllowedLoop(c, request, i + 1, Append(audit, d.record)) : d \in LadonOutcomes(c, request, i)}

\* The part of IsAllowed after the lookup: c is the *Configuration found.
IsAllowedFound(c, request) == IsAllowedLoop(c, request, 1, <<>>)

\* IsAllowedMissing without the explicit audit record.
IsAllowedMissingSilent(request) == [ret |-> FALSE, audit |-> <<>>, evaluated |-> 0]

\* The part of IsAllowed when the lookup finds nothing.
IsAllowedMissing(request) == [ret |-> FALSE, audit |-> <<logRequest(FALSE, ladonRequest(request, ""), <<>>)>>, evaluated |-> 0]

\* The outcomes of IsAllowed against the registry `live`.
IsAllowedResult(live, audience, request) ==
  IF audience \notin DOMAIN live THEN {IsAllowedMissing(request)}
  ELSE IsAllowedFound(live[audience], request)

(***************************************************************************)
(* LadonDoorman.ExpandPrincipals.                                          *)
(***************************************************************************)
TagPrincipal(tag) == "tag:" \o tag

RECURSIVE ExpandPrincipalLoop(_, _, _, _, _)
ExpandPrincipalLoop(result, tag, member, principals, i) ==
  IF i > Len(principals) THEN result
  ELSE IF principals[i] = member THEN ExpandPrincipalLoop(Append(result, TagPrincipal(tag)), tag, member, principals, i + 1)
  ELSE ExpandPrincipalLoop(result, tag, member, principals, i + 1)

\* ExpandMemberLoop that adds the tag once, however many of its members
\* are among the principals.
ExpandMemberLoopOnce(result, tag, members, principals, j) ==
  IF \E m \in j..Len(members), i \in 1..Len(principals) : principals[i] = members[m] THEN Append(result, TagPrincipal(tag))
  ELSE result

RECURSIVE ExpandMemberLoop(_, _, _, _, _)
ExpandMemberLoop(result, tag, members, principals, j) ==
  IF j > Len(members) THEN result
  ELSE ExpandMemberLoop(ExpandPrincipalLoop(result, tag, members[j], principals, 1), tag, members, principals, j + 1)

\* ExpandTagLoop with the loops nested the other way: the principals outermost.
RECURSIVE ExpandTagsOfPrincipal(_, _, _, _, _)
ExpandTagsOfPrincipal(result, tags, tagOrder, principal, t) ==
  IF t > Len(tagOrder) THEN result
  ELSE ExpandTagsOfPrincipal(ExpandMemberLoop(result, tagOrder[t], tags[tagOrder[t]], <<principal>>, 1), tags, tagOrder, principal, t + 1)

RECURSIVE ExpandTagLoopByPrincipal(_, _, _, _, _)
ExpandTagLoopByPrincipal(result, tags, tagOrder, principals, k) ==
  IF k > Len(principals) THEN result
  ELSE ExpandTagLoopByPrincipal(ExpandTagsOfPrincipal(result, tags, tagOrder, principals[k], 1), tags, tagOrder, principals, k + 1)

\* tagOrder is the order in which `range c.Tags` visits the tags (a Go map).
RECURSIVE ExpandTagLoop(_, _, _, _, _)
ExpandTagLoop(result, tags, tagOrder, principals, k) ==
  IF k > Len(tagOrder) THEN result
  ELSE ExpandTagLoop(ExpandMemberLoop(result, tagOrder[k], tags[tagOrder[k]], principals, 1), tags, tagOrder, principals, k + 1)

\* ExpandPrincipalsResult that returns the tags alone.
ExpandPrincipalsResultTagsOnly(live, audience, principals, tagOrder) ==
  IF audience \notin DOMAIN live THEN principals
  ELSE ExpandTagLoop(<<>>, live[audience].Tags, tagOrder, principals, 1)

ExpandPrincipalsResult(live, audience, principals, tagOrder) ==
  IF audience \notin DOMAIN live THEN principals
  ELSE ExpandTagLoop(principals, live[audience].Tags, tagOrder, principals, 1)

TagOrdersFor(live, audience) ==
  IF audience \notin DOMAIN live THEN {<<>>}
  ELSE Perms(DOMAIN live[audience].Tags)

(***************************************************************************)
(* The identity middleware.                                                *)
(***************************************************************************)
StatusBadRequest == 400

StatusUnauthorized == 401

StatusForbidden == 403

\* Auth0Validator.ExtractClaims: the error of ValidateRequest is overwritten
\* by the error of Claims, which alone decides what is returned.
ExtractClaims(validateErr, claimsErr, claims) ==
  IF claimsErr THEN [err |-> "claims", claims |-> <<>>]
  ELSE [err |-> "", claims |-> claims]

\* jwt.Audience.Contains
Contains(audience, origin) == \E k \in 1..Len(audience) : audience[k] = origin

\* GroupPrincipals that leaves out a group it has already added.
RECURSIVE GroupPrincipalsDistinct(_, _, _)
GroupPrincipalsDistinct(principals, groups, k) ==
  IF k > Len(groups) THEN principals
  ELSE IF \E j \in 1..Len(principals) : principals[j] = "group:" \o groups[k] THEN GroupPrincipalsDistinct(principals, groups, k + 1)
  ELSE GroupPrincipalsDistinct(Append(principals, "group:" \o groups[k]), groups, k + 1)

\* for _, group := range claims.Groups { principals = append(principals, "group:"+group) }
RECURSIVE GroupPrincipals(_, _, _)
GroupPrincipals(principals, groups, k) ==
  IF k > Len(groups) THEN principals
  ELSE GroupPrincipals(Append(principals, "group:" \o groups[k]), groups, k + 1)

ExtractPrincipals(claims) ==
  LET userid == <<"userid:" \o claims.Subject>>
      email == IF claims.Email # "" THEN Append(userid, "email:" \o claims.Email) ELSE userid
  IN GroupPrincipals(email, claims.Groups, 1)

\* The gin context of the request: the statuses written by AbortWithStatusJSON,
\* whether the chain was aborted, the principals stored under
\* PrincipalsContextKey, and whether c.Next() ran the downstream handler.
NewContext == [written |-> <<>>, aborted |-> FALSE, stored |-> FALSE, principals |-> <<>>, next |-> FALSE]

AbortWithStatusJSON(c, status) == [c EXCEPT !.written = Append(@, status), !.aborted = TRUE]

SetPrincipals(c, principals) == [c EXCEPT !.stored = TRUE, !.principals = principals]

CallNext(c) == [c EXCEPT !.next = TRUE]

\* VerifyJWTHandler without the return that follows the abort on a missing Origin.
VerifyJWTHandlerNoReturn(c, extracted, origin) ==
  IF extracted.err # "" THEN AbortWithStatusJSON(c, StatusUnauthorized)
  ELSE LET c1 == IF origin = "" THEN AbortWithStatusJSON(c, StatusBadRequest) ELSE c IN
       IF ~Contains(extracted.claims.Audience, origin) THEN AbortWithStatusJSON(c1, StatusForbidden)
       ELSE CallNext(SetPrincipals(c1, ExtractPrincipals(extracted.claims)))

VerifyJWTHandler(c, extracted, origin) ==
  IF extracted.err # "" THEN AbortWithStatusJSON(c, StatusUnauthorized)
  ELSE IF origin = "" THEN AbortWithStatusJSON(c, StatusBadRequest)
  ELSE IF ~Contains(extracted.claims.Audience, origin) THEN AbortWithStatusJSON(c, StatusForbidden)
  ELSE CallNext(SetPrincipals(c, ExtractPrincipals(extracted.claims)))

Idle == [op |-> "idle"]

Init ==
  /\ configs = EmptyMap
  /\ auditLogger = FALSE
  /\ call = Idle
  /\ loader = [pc |-> "idle"]
  /\ reader = [pc |-> "idle"]

LoadPolicies ==
  /\ call.op = "idle"
  /\ \E a \in SourceContents[1], b \in SourceContents[2] :
       LET files == <<a, b>>
           res == LoadPoliciesResult(configs, files)
       IN /\ configs' = res.configs
          /\ call' = [op |-> "LoadPolicies", err |-> res.err, at |-> res.at, files |-> IF res.err = "" THEN files ELSE <<>>, failed |-> IF res.err = "" THEN <<>> ELSE <<files[res.at]>>, was |-> DOMAIN configs]
          /\ auditLogger' = (auditLogger \/ LoadCreatesLogger(files))
  /\ UNCHANGED <<loader, reader>>

\* The caller takes the result; the next call may start.
Return ==
  /\ call.op # "idle"
  /\ call' = Idle
  /\ UNCHANGED <<configs, auditLogger, loader, reader>>

\* IsAllowed that enters an audience it did not find into the registry, with
\* an empty configuration.
IsAllowedCachingMiss ==
  /\ call.op = "idle"
  /\ \E audience \in Audiences, request \in Requests :
       /\ \E res \in IsAllowedResult(configs, audience, request) :
            call' = [op |-> "IsAllowed", audience |-> audience, request |-> request, ret |-> res.ret, audit |-> res.audit, evaluated |-> res.evaluated]
       /\ auditLogger' = (auditLogger \/ audience \notin DOMAIN configs)
       /\ configs' = IF audience \in DOMAIN configs THEN configs
                     ELSE configs @@ (audience :> [Audience |-> audience, Tags |-> EmptyMap, Policies |-> <<>>, declared |-> <<>>, ladon |-> EmptyMap])
  /\ UNCHANGED <<loader, reader>>

IsAllowed ==
  /\ call.op = "idle"
  /\ \E audience \in Audiences, request \in Requests :
       /\ \E res \in IsAllowedResult(configs, audience, request) :
            call' = [op |-> "IsAllowed", audience |-> audience, request |-> request, ret |-> res.ret, audit |-> res.audit, evaluated |-> res.evaluated]
       /\ auditLogger' = (auditLogger \/ audience \notin DOMAIN configs)
  /\ UNCHANGED <<configs, loader, reader>>

ExpandPrincipals ==
  /\ call.op = "idle"
  /\ \E audience \in Audiences, principals \in SeqsUpTo(PrincipalUniverse, MaxPrincipals) :
       \E tagOrder \in TagOrdersFor(configs, audience) :
         call' = [op |-> "ExpandPrincipals", audience |-> audience, principals |-> principals, result |-> ExpandPrincipalsResult(configs, audience, principals, tagOrder)]
  /\ UNCHANGED <<configs, auditLogger, loader, reader>>

VerifyJWTMiddleware ==
  /\ call.op = "idle"
  /\ \E validateErr \in BOOLEAN, claimsErr \in BOOLEAN, claims \in ClaimsUniverse, origin \in Origins :
       LET extracted == ExtractClaims(validateErr, claimsErr, claims) IN
       call' = [op |-> "VerifyJWT", extractErr |-> extracted.err, claims |-> claims, origin |-> origin, context |-> VerifyJWTHandler(NewContext, extracted, origin)]
  /\ UNCHANGED <<configs, auditLogger, loader, reader>>

Next ==
  \/ LoadPolicies
  \/ IsAllowed
  \/ ExpandPrincipals
  \/ VerifyJWTMiddleware
  \/ Return

Spec == Init /\ [][Next]_vars

(***************************************************************************)
(* LoadPolicies and IsAllowed as goroutines: a reload in progress while a  *)
(* request is decided. doorman.configs is written (LoadPolicies) and read  *)
(* (IsAllowed) without a lock or an atomic.                                *)
(***************************************************************************)
\* What the unsynchronized read of doorman.configs may give a reader that
\* runs while the map is published: the map it replaced, the new map, or the
\* new map with only part of the writes that built it visible.
RacyRead(old, new, built) == {old, new} \cup Range(built)

\* configs := map[string]*Configuration{}
LoadBegin ==
  /\ loader.pc = "idle"
  /\ call.op = "idle"
  /\ loader' = [pc |-> "loop", k |-> 1, local |-> EmptyMap, built |-> <<EmptyMap>>]
  /\ UNCHANGED <<configs, auditLogger, call, reader>>

\* One turn of the loop over policiesSources, on what the source holds now.
LoadStep(file) ==
  /\ loader.pc = "loop"
  /\ loader.k <= Len(policiesSources)
  /\ LET step == LoadSource(loader.local, file) IN
       IF step.err # "" THEN loader' = [pc |-> "idle"]
       ELSE loader' = [loader EXCEPT !.k = @ + 1, !.local = step.configs, !.built = Append(@, step.configs)]
  /\ auditLogger' = (auditLogger \/ loadConfiguration(file).err = "")
  /\ UNCHANGED <<configs, call, reader>>

\* A flow that is between its expansion and its lookup has one more
\* published registry it may have read from.
FlowSees(flow, published) == IF flow.on THEN [flow EXCEPT !.versions = @ \cup {published}] ELSE flow

\* doorman.configs = configs; return nil
LoadPublish ==
  /\ loader.pc = "loop"
  /\ loader.k > Len(policiesSources)
  /\ configs' = loader.local
  /\ loader' = [pc |-> "idle"]
  /\ reader' = IF reader.pc = "entered"
               THEN [reader EXCEPT !.versions = @ \cup {loader.local}, !.visible = @ \cup RacyRead(configs, loader.local, loader.built), !.flow = FlowSees(@, loader.local)]
               ELSE IF reader.pc = "expanded" THEN [reader EXCEPT !.flow = FlowSees(@, loader.local)]
               ELSE reader
  /\ UNCHANGED <<auditLogger, call>>

\* IsAllowed up to the lookup: the ladon request is built.
ReaderEnter(audience, request) ==
  /\ reader.pc = "idle"
  /\ call.op = "idle"
  /\ reader' = [pc |-> "entered", audience |-> audience, request |-> request, versions |-> {configs}, visible |-> {configs}, flow |-> [on |-> FALSE]]
  /\ UNCHANGED <<configs, auditLogger, call, loader>>

\* ExpandPrincipals, the first call of a flow that expands the principals
\* and then asks for a decision on them: flow.tags is what the lookup of the
\* audience gave, flow.versions the registries published since.
ReaderExpand(audience, principals) ==
  /\ reader.pc = "idle"
  /\ call.op = "idle"
  /\ \E tagOrder \in TagOrdersFor(configs, audience) :
       reader' = [pc |-> "expanded", audience |-> audience, result |-> ExpandPrincipalsResult(configs, audience, principals, tagOrder),
                  flow |-> [on |-> TRUE, principals |-> principals, tags |-> IF audience \in DOMAIN configs THEN <<configs[audience].Tags>> ELSE <<>>, versions |-> {configs}]]
  /\ UNCHANGED <<configs, auditLogger, call, loader>>

\* IsAllowed up to the lookup, called with the expanded principals.
ReaderEnterExpanded(resource, action) ==
  /\ reader.pc = "expanded"
  /\ reader' = [pc |-> "entered", audience |-> reader.audience, request |-> [Principals |-> reader.result, Resource |-> resource, Action |-> action, Context |-> {}], versions |-> {configs}, visible |-> {configs}, flow |-> reader.flow]
  /\ UNCHANGED <<configs, auditLogger, call, loader>>

\* c, ok := doorman.configs[audience], and the return on a miss.
ReaderLookup ==
  /\ reader.pc = "entered"
  /\ \E m \in reader.visible :
       IF reader.audience \notin DOMAIN m
       THEN /\ reader' = [pc |-> "done", audience |-> reader.audience, request |-> reader.request, versions |-> reader.versions, found |-> FALSE, c |-> EmptyMap, i |-> 0, result |-> IsAllowedMissing(reader.request), flow |-> reader.flow]
            /\ auditLogger' = TRUE
       ELSE /\ reader' = [pc |-> "loop", audience |-> reader.audience, request |-> reader.request, versions |-> reader.versions, found |-> TRUE, c |-> m[reader.audience], i |-> 1, result |-> [ret |-> FALSE, audit |-> <<>>, evaluated |-> 0], flow |-> reader.flow]
            /\ UNCHANGED auditLogger
  /\ UNCHANGED <<configs, call, loader>>

\* One turn of the loop over the principals, or the return after the last.
ReaderEval ==
  /\ reader.pc = "loop"
  /\ IF reader.i > Len(reader.request.Principals)
     THEN reader' = [reader EXCEPT !.pc = "done"]
     ELSE \E order \in Perms(DOMAIN reader.c.ladon) :
            LET d == LadonIsAllowed(reader.c.ladon, ladonRequest(reader.request, reader.request.Principals[reader.i]), order) IN
            reader' = [reader EXCEPT !.pc = IF d.err = "" THEN "done" ELSE "loop", !.i = @ + 1, !.result = [ret |-> d.err = "", audit |-> Append(@.audit, d.record), evaluated |-> reader.i]]
  /\ UNCHANGED <<configs, auditLogger, call, loader>>

ReaderReturn ==
  /\ reader.pc = "done"
  /\ reader' = [pc |-> "idle"]
  /\ UNCHANGED <<configs, auditLogger, call, loader>>

NextConc ==
  \/ LoadBegin
  \/ \E file \in ConcFiles : LoadStep(file)
  \/ LoadPublish
  \/ \E audience \in {"svc1", "svc2"}, request \in ConcRequests : ReaderEnter(audience, request)
  \/ \E principals \in ConcPrincipals : ReaderExpand("svc1", principals)
  \/ ReaderEnterExpanded("doc:1", "read")
  \/ ReaderLookup
  \/ ReaderEval
  \/ ReaderReturn

SpecConc == Init /\ [][NextConc]_vars

(***************************************************************************)
(* Properties.                                                             *)
(***************************************************************************)
\* The policy store the last call was decided against.
StoreOf(audience) == configs[audience].ladon

DenyApplies(audience, request, i) == \E id \in DOMAIN StoreOf(audience) : StoreOf(audience)[id].Effect = "deny" /\ PolicyApplies(StoreOf(audience)[id], ladonRequest(request, request.Principals[i]))

AllowApplies(audience, request, i) == \E id \in DOMAIN StoreOf(audience) : StoreOf(audience)[id].Effect = "allow" /\ PolicyApplies(StoreOf(audience)[id], ladonRequest(request, request.Principals[i]))

IsAllowedDone == call.op = "IsAllowed"

Configured == call.audience \in DOMAIN configs

\* C1: a LoadPolicies call that returns an error, whatever the source that
\* failed and whatever loaded before it, leaves the live registry as it was.
C1_ReloadAllOrNothing == [][(call'.op = "LoadPolicies" /\ call'.err # "") => configs' = configs]_vars

\* A reload failed on its second source, after the first one loaded, over a
\* registry that held audiences.
C1_Witness == call.op = "LoadPolicies" /\ call.err # "" /\ call.at = 2 /\ configs # EmptyMap

\* C2: with a single principal, a deny policy that matches the request makes
\* IsAllowed return false, also when an allow policy matches it too.
C2_DenyOverridesAllow == (IsAllowedDone /\ Configured /\ Len(call.request.Principals) = 1 /\ DenyApplies(call.audience, call.request, 1)) => call.ret = FALSE

\* A deny and an allow policy match the one principal, and the call denied.
C2_Witness == IsAllowedDone /\ Configured /\ Len(call.request.Principals) = 1 /\ DenyApplies(call.audience, call.request, 1) /\ AllowApplies(call.audience, call.request, 1) /\ call.ret = FALSE

\* C3 as stated: a deny policy matching under any one principal of the
\* request makes IsAllowed return false.
C3_DenyOverridesRequest == (IsAllowedDone /\ Configured /\ \E i \in 1..Len(call.request.Principals) : DenyApplies(call.audience, call.request, i)) => call.ret = FALSE

\* C3 amended: deny overrides allow principal by principal. IsAllowed returns
\* false when a deny policy matches under every principal under which an
\* allow policy matches.
C3_DenyOverridesPerPrincipal == (IsAllowedDone /\ Configured /\ \A i \in 1..Len(call.request.Principals) : AllowApplies(call.audience, call.request, i) => DenyApplies(call.audience, call.request, i)) => call.ret = FALSE

\* Several principals, one of them matched by an allow and by a deny policy,
\* and the call denied.
C3_Witness == IsAllowedDone /\ Configured /\ Len(call.request.Principals) > 1 /\ call.ret = FALSE /\ \E i \in 1..Len(call.request.Principals) : AllowApplies(call.audience, call.request, i) /\ DenyApplies(call.audience, call.request, i)

\* C4: IsAllowed returns true only for a configured audience and a request
\* that an allow policy matches under one of its principals.
C4_DefaultDeny == (IsAllowedDone /\ call.ret = TRUE) => (Configured /\ \E i \in 1..Len(call.request.Principals) : AllowApplies(call.audience, call.request, i))

\* A call was granted.
C4_Witness == IsAllowedDone /\ call.ret = TRUE

\* C5: for an audience that is not in the live registry IsAllowed returns
\* false, evaluates no principal and leaves exactly one audit record, a
\* denied one with no matched policy.
C5_UnknownAudienceDenied == (IsAllowedDone /\ ~Configured) => (call.ret = FALSE /\ call.evaluated = 0 /\ Len(call.audit) = 1 /\ call.audit[1].allowed = FALSE /\ call.audit[1].policies = <<>>)

\* A request with principals for an audience missing from a loaded registry.
C5_Witness == IsAllowedDone /\ ~Configured /\ configs # EmptyMap /\ Len(call.request.Principals) > 0

\* C6 as stated: every IsAllowed call leaves exactly one audit record, which
\* carries the decision returned.
C6_OneAuditRecordPerCall == IsAllowedDone => (Len(call.audit) = 1 /\ call.audit[1].allowed = call.ret)

(***************************************************************************)
(* Properties of ExpandPrincipals.                                         *)
(***************************************************************************)
ExpandDone == call.op = "ExpandPrincipals"

TagsOf(audience) == configs[audience].Tags

\* Tag T has a member equal to one of the principals.
TagMatches(tags, T, principals) == \E j \in 1..Len(tags[T]), i \in 1..Len(principals) : principals[i] = tags[T][j]

MatchCount(tags, T, principals) == Cardinality({ji \in (1..Len(tags[T])) \X (1..Len(principals)) : principals[ji[2]] = tags[T][ji[1]]})

\* The elements appended to the input.
Appended == SubSeq(call.result, Len(call.principals) + 1, Len(call.result))

\* C8: the result starts with the input principals; what follows are "tag:T"
\* for tags T with a member among the input, each such tag at least once; one
\* principal and one tag listing it once give <<p1, "tag:T">>.
C8_ExpansionAdditive ==
  (ExpandDone /\ Configured) =>
    /\ Len(call.result) >= Len(call.principals)
    /\ SubSeq(call.result, 1, Len(call.principals)) = call.principals
    /\ \A k \in 1..Len(Appended) : \E T \in DOMAIN TagsOf(call.audience) : Appended[k] = "tag:" \o T /\ TagMatches(TagsOf(call.audience), T, call.principals)
    /\ \A T \in DOMAIN TagsOf(call.audience) : TagMatches(TagsOf(call.audience), T, call.principals) => \E k \in 1..Len(Appended) : Appended[k] = "tag:" \o T
    /\ \A T \in DOMAIN TagsOf(call.audience) : (Len(call.principals) = 1 /\ DOMAIN TagsOf(call.audience) = {T} /\ MatchCount(TagsOf(call.audience), T, call.principals) = 1) => call.result = <<call.principals[1], "tag:" \o T>>

\* One principal expanded against the one tag that lists it.
C8_Witness == ExpandDone /\ Configured /\ Len(call.principals) = 1 /\ Cardinality(DOMAIN TagsOf(call.audience)) = 1 /\ Len(call.result) = 2

\* C9 as stated: the tag principals are appended in the order in which the
\* configuration declares the tags.
C9_DeclarationOrder == (ExpandDone /\ Configured) => call.result = ExpandPrincipalsResult(configs, call.audience, call.principals, configs[call.audience].declared)

\* C9 amended: the principals appended for one tag are contiguous, one block
\* per matching tag after the input principals; the order of the blocks is
\* the order in which the Go map of tags is ranged over, which is neither the
\* declaration order nor the same from one call to the next.
C9_TagBlocksContiguous == (ExpandDone /\ Configured) => \A a, b, c \in 1..Len(Appended) : (a < b /\ b < c /\ Appended[a] = Appended[c]) => Appended[b] = Appended[a]

\* Two tags matched, one of them twice, and their blocks came out in the
\* reverse of the declaration order.
C9_Witness == ExpandDone /\ Configured /\ Len(Appended) = 3 /\ Appended[1] # Appended[3] /\ call.result # ExpandPrincipalsResult(configs, call.audience, call.principals, configs[call.audience].declared)

(***************************************************************************)
(* Properties of the identity middleware.                                  *)
(***************************************************************************)
VerifyDone == call.op = "VerifyJWT"

Rejections == {StatusUnauthorized, StatusBadRequest, StatusForbidden}

\* C10: the checks are tried in the order claims extraction (401), Origin
\* header (400), audience (403); the request goes on only when all three
\* pass, and a rejection writes one status, stores no principals and does not
\* run the downstream handler.
C10_MiddlewareRejects ==
  VerifyDone =>
    /\ call.context.next => (call.extractErr = "" /\ call.origin # "" /\ Contains(call.claims.Audience, call.origin))
    /\ call.extractErr # "" => call.context.written = <<StatusUnauthorized>>
    /\ (call.extractErr = "" /\ call.origin = "") => call.context.written = <<StatusBadRequest>>
    /\ (call.extractErr = "" /\ call.origin # "" /\ ~Contains(call.claims.Audience, call.origin)) => call.context.written = <<StatusForbidden>>
    /\ call.context.written # <<>> => (Len(call.context.written) = 1 /\ call.context.written[1] \in Rejections /\ call.context.aborted /\ ~call.context.stored /\ call.context.principals = <<>> /\ ~call.context.next)
    /\ call.context.written = <<>> => (call.context.next /\ call.context.stored /\ ~call.context.aborted)

\* The Origin header is missing and the claims do not hold it either: the
\* second check rejects before the third is tried.
C10_Witness == VerifyDone /\ call.extractErr = "" /\ call.origin = "" /\ ~Contains(call.claims.Audience, call.origin) /\ call.context.written = <<StatusBadRequest>>

(***************************************************************************)
(* Properties of a decision taken while a reload runs.                     *)
(***************************************************************************)
\* C7 as stated: what the lookup of an IsAllowed call finds for its audience
\* is what one published registry holds for it, the registry live when the
\* call began or one published while it ran; never a map under construction.
C7_OnePublishedVersion == (reader.pc \in {"loop", "done"}) => \E v \in reader.versions : reader.found = (reader.audience \in DOMAIN v) /\ (reader.found => reader.c = v[reader.audience])

(***************************************************************************)
(* Properties of the principals the middleware derives.                    *)
(***************************************************************************)
\* The request passed the three checks and was handed on.
Accepted == VerifyDone /\ call.context.next

\* 1 when the claims carry an email, 0 when they do not.
EmailCount == IF call.claims.Email # "" THEN 1 ELSE 0

\* C11: the principals stored for an accepted request are "userid:<subject>",
\* then "email:<email>" exactly when the email is not empty, then
\* "group:<g>" for every group of the claims in their order, and nothing
\* else; subject "42" with audience ["https://svc1/"], no email and no group,
\* sent from Origin "https://svc1/", gives ["userid:42"].
C11_PrincipalsDerived ==
  Accepted =>
    /\ call.context.stored
    /\ Len(call.context.principals) = 1 + EmailCount + Len(call.claims.Groups)
    /\ call.context.principals[1] = "userid:" \o call.claims.Subject
    /\ EmailCount = 1 => call.context.principals[2] = "email:" \o call.claims.Email
    /\ \A k \in 1..Len(call.claims.Groups) : call.context.principals[1 + EmailCount + k] = "group:" \o call.claims.Groups[k]
    /\ (call.claims = [Subject |-> "42", Audience |-> <<"https://svc1/">>, Email |-> "", Groups |-> <<>>] /\ call.origin = "https://svc1/") => call.context.principals = <<"userid:42">>

\* An accepted request whose claims carry an email and the same group twice.
C11_Witness == Accepted /\ EmailCount = 1 /\ Len(call.claims.Groups) = 2 /\ call.claims.Groups[1] = call.claims.Groups[2] /\ Len(call.context.principals) = 4

(***************************************************************************)
(* Properties of the registry.                                             *)
(***************************************************************************)
LoadDone == call.op = "LoadPolicies"

\* The policies of a configuration have pairwise distinct IDs and its store
\* holds them, each under its ID, and nothing else.
StoreHoldsPolicies(c) ==
  /\ \A a, b \in 1..Len(c.Policies) : a # b => c.Policies[a].ID # c.Policies[b].ID
  /\ DOMAIN c.ladon = {c.Policies[k].ID : k \in 1..Len(c.Policies)}
  /\ \A k \in 1..Len(c.Policies) : c.ladon[c.Policies[k].ID] = c.Policies[k]

\* The sources hold configurations with an audience, no two the same one,
\* and no configuration has two policies with one ID.
SourcesWellFormed(files) ==
  /\ \A k \in 1..Len(files) : files[k].kind = "config" /\ files[k].Audience # ""
  /\ \A a, b \in 1..Len(files) : a # b => files[a].Audience # files[b].Audience
  /\ \A k \in 1..Len(files) : \A a, b \in 1..Len(files[k].Policies) : a # b => files[k].Policies[a].ID # files[k].Policies[b].ID

\* C12: whatever loads succeeded or failed, every key of the live registry
\* is a non-empty audience and the Audience of its configuration, whose
\* store holds exactly its policies, with pairwise distinct IDs; a load
\* succeeds only on sources that each have an audience, no two the same, and
\* no ID twice in one source, and then gives one entry per source.
C12_RegistryWellFormed ==
  /\ \A a \in DOMAIN configs : a # "" /\ configs[a].Audience = a /\ StoreHoldsPolicies(configs[a])
  /\ (LoadDone /\ call.err = "") =>
       /\ SourcesWellFormed(call.files)
       /\ DOMAIN configs = {call.files[k].Audience : k \in 1..Len(call.files)}
       /\ \A k \in 1..Len(call.files) : configs[call.files[k].Audience].Policies = call.files[k].Policies

\* A load refused because its second source names the audience of the
\* first, over a registry of two audiences, one of them with two policies.
C12_Witness == LoadDone /\ call.err = "duplicated audience" /\ call.at = 2 /\ Cardinality(DOMAIN configs) = 2 /\ \E a \in DOMAIN configs : Len(configs[a].Policies) = 2

\* The audience of the last call is configured with no policy at all.
NoPolicies == Configured /\ configs[call.audience].Policies = <<>> /\ DOMAIN StoreOf(call.audience) = {}

\* C13: a source with an audience and an empty list of policies fails a load
\* only by naming an audience loaded before it; a load that succeeds on it
\* configures its audience with an empty store, and every IsAllowed call
\* for an audience so configured returns false.
C13_EmptyPolicyListLoads ==
  /\ (LoadDone /\ call.err # "" /\ call.failed[1].kind = "config" /\ call.failed[1].Audience # "" /\ call.failed[1].Policies = <<>>) => (call.err = "duplicated audience" /\ call.at > 1)
  /\ (LoadDone /\ call.err = "") => \A k \in 1..Len(call.files) : call.files[k].Policies = <<>> => (call.files[k].Audience \in DOMAIN configs /\ configs[call.files[k].Audience].Policies = <<>> /\ DOMAIN configs[call.files[k].Audience].ladon = {})
  /\ (IsAllowedDone /\ NoPolicies) => call.ret = FALSE

\* A request with principals was decided for an audience loaded without
\* policies, beside an audience that has policies.
C13_Witness == IsAllowedDone /\ NoPolicies /\ Len(call.request.Principals) > 0 /\ call.ret = FALSE /\ \E a \in DOMAIN configs : configs[a].Policies # <<>>

(***************************************************************************)
(* Properties of the loop over the principals.                             *)
(***************************************************************************)
\* With the i-th principal as the only subject, an allow policy matches the
\* request and no deny policy does.
PrincipalAllowed(audience, request, i) == AllowApplies(audience, request, i) /\ ~DenyApplies(audience, request, i)

\* The request with its principals at positions i and i + 1 exchanged. Every
\* order of the principals is reached by such exchanges.
Exchanged(request, i) == [request EXCEPT !.Principals = [k \in 1..Len(request.Principals) |-> request.Principals[IF k = i THEN i + 1 ELSE IF k = i + 1 THEN i ELSE k]]]

\* C14: for a configured audience IsAllowed returns true exactly when, under
\* one of the principals taken alone, an allow policy matches and no deny
\* policy matches; the same request with two neighbouring principals
\* exchanged, and so with its principals in any other order, gets the same
\* answer.
C14_AnyPrincipalSuffices ==
  (IsAllowedDone /\ Configured) =>
    /\ call.ret = (\E i \in 1..Len(call.request.Principals) : PrincipalAllowed(call.audience, call.request, i))
    /\ \A i \in 1..(Len(call.request.Principals) - 1) : \A o \in IsAllowedResult(configs, call.audience, Exchanged(call.request, i)) : o.ret = call.ret

\* Two principals: a deny policy matches under the first, an allow policy
\* and no deny policy under the second, and the call granted.
C14_Witness == IsAllowedDone /\ Configured /\ Len(call.request.Principals) = 2 /\ DenyApplies(call.audience, call.request, 1) /\ PrincipalAllowed(call.audience, call.request, 2) /\ call.ret = TRUE

\* The IDs of the allow policies that match under the i-th principal.
MatchedAllows(audience, request, i) == {id \in DOMAIN StoreOf(audience) : StoreOf(audience)[id].Effect = "allow" /\ PolicyApplies(StoreOf(audience)[id], ladonRequest(request, request.Principals[i]))}

\* C15: the principals are evaluated in the order of the request, one audit
\* record each; the evaluation ends with the first principal that is
\* allowed, whose record is the only granted one and names that principal
\* and the policies that matched it; without such a principal every
\* principal is evaluated.
C15_FirstAllowingPrincipal ==
  (IsAllowedDone /\ Configured) =>
    /\ call.evaluated <= Len(call.request.Principals)
    /\ Len(call.audit) = call.evaluated
    /\ \A k \in 1..call.evaluated : call.audit[k].subject = call.request.Principals[k]
    /\ \A k \in 1..call.evaluated : call.audit[k].allowed = (call.ret /\ k = call.evaluated)
    /\ call.ret = TRUE =>
         /\ call.evaluated >= 1
         /\ PrincipalAllowed(call.audience, call.request, call.evaluated)
         /\ \A k \in 1..(call.evaluated - 1) : ~PrincipalAllowed(call.audience, call.request, k)
         /\ Range(call.audit[call.evaluated].policies) = MatchedAllows(call.audience, call.request, call.evaluated)
    /\ call.ret = FALSE => call.evaluated = Len(call.request.Principals)

\* Two different principals that are both allowed, by different policies:
\* the call granted on the first and did not evaluate the second.
C15_Witness == IsAllowedDone /\ Configured /\ call.ret = TRUE /\ Len(call.request.Principals) = 2 /\ call.evaluated = 1 /\ PrincipalAllowed(call.audience, call.request, 2) /\ MatchedAllows(call.audience, call.request, 1) # MatchedAllows(call.audience, call.request, 2)

(***************************************************************************)
(* Properties of a flow of ExpandPrincipals and IsAllowed while a reload   *)
(* runs.                                                                   *)
(***************************************************************************)
\* The flow has expanded its principals and looked its audience up.
FlowDecided == reader.pc \in {"loop", "done"} /\ reader.flow.on

\* Registry v is the one the expansion took its tags from.
ExpandedWith(v) == reader.flow.tags = (IF reader.audience \in DOMAIN v THEN <<v[reader.audience].Tags>> ELSE <<>>)

\* Registry v is the one the decision takes its policies from.
DecidedWith(v) == reader.found = (reader.audience \in DOMAIN v) /\ (reader.found => reader.c.ladon = v[reader.audience].ladon)

\* C16 as stated: a flow that expands the principals and then asks for the
\* decision, while a reload runs, takes the tags and the policies from one
\* version of the registry: the one live when it began or one published
\* before its second lookup.
C16_FlowOneVersion == FlowDecided => \E v \in reader.flow.versions : ExpandedWith(v) /\ DecidedWith(v)

(***************************************************************************)
(* Properties of a reload over a registry that holds audiences.            *)
(***************************************************************************)
\* Configuration c holds the tags that the source declares: the declared
\* names, each with the members of its last declaration.
HoldsTagsOf(c, file) ==
  /\ DOMAIN c.Tags = {file.Tags[j][1] : j \in 1..Len(file.Tags)}
  /\ \A j \in 1..Len(file.Tags) : (\A later \in (j + 1)..Len(file.Tags) : file.Tags[later][1] # file.Tags[j][1]) => c.Tags[file.Tags[j][1]] = file.Tags[j][2]

\* C17: after a LoadPolicies that returned nil the live registry holds the
\* audiences of the sources of that call and no other, each with the
\* policies and the tags of its source; an audience that was live before
\* the call and is in none of its sources is unknown to IsAllowed and to
\* ExpandPrincipals.
C17_ReloadReplaces ==
  (LoadDone /\ call.err = "") =>
    /\ DOMAIN configs = {call.files[k].Audience : k \in 1..Len(call.files)}
    /\ \A k \in 1..Len(call.files) :
         /\ configs[call.files[k].Audience].Policies = call.files[k].Policies
         /\ StoreHoldsPolicies(configs[call.files[k].Audience])
         /\ HoldsTagsOf(configs[call.files[k].Audience], call.files[k])
    /\ \A a \in call.was \ {call.files[k].Audience : k \in 1..Len(call.files)} :
         /\ \A request \in ConcRequests : IsAllowedResult(configs, a, request) = {IsAllowedMissing(request)}
         /\ \A principals \in ConcPrincipals : \A tagOrder \in TagOrdersFor(configs, a) : ExpandPrincipalsResult(configs, a, principals, tagOrder) = principals

\* A reload succeeded over a registry that held an audience which the
\* sources of the reload do not name.
C17_Witness == LoadDone /\ call.err = "" /\ \E a \in call.was : a \notin {call.files[k].Audience : k \in 1..Len(call.files)}

(***************************************************************************)
(* Isolation of the audiences.                                             *)
(***************************************************************************)
\* A source that declares what configuration c holds, for audience a.
SourceOf(c, a) == ConfigFile(a, [k \in 1..Len(c.declared) |-> <<c.declared[k], c.Tags[c.declared[k]]>>], c.Policies)

\* Sources for the audiences other than a: none, or one that gives the
\* configuration of another audience e of the live registry to a third one.
OtherSources(a) == {<<>>} \cup {<<SourceOf(configs[e], CHOOSE b \in Audiences : b # a /\ b # e)>> : e \in DOMAIN configs \ {a}}

\* Registries that agree with the live one on audience a, loaded from the
\* source of a (none when a is not configured) and from other sources.
RegistriesAgreeingOn(a) == {LoadSources((IF a \in DOMAIN configs THEN <<SourceOf(configs[a], a)>> ELSE <<>>) \o others, 1, EmptyMap).configs : others \in OtherSources(a)}

ExpansionsIn(registry, audience, principals) == {ExpandPrincipalsResult(registry, audience, principals, tagOrder) : tagOrder \in TagOrdersFor(registry, audience)}

\* C18: what IsAllowed and ExpandPrincipals may give for an audience is the
\* same in every registry that holds the same policies and tags for that
\* audience, whatever it holds for the other audiences.
C18_AudienceIsolation ==
  /\ IsAllowedDone =>
       LET live == IsAllowedResult(configs, call.audience, call.request) IN
       /\ [ret |-> call.ret, audit |-> call.audit, evaluated |-> call.evaluated] \in live
       /\ \A registry \in RegistriesAgreeingOn(call.audience) : IsAllowedResult(registry, call.audience, call.request) = live
  /\ ExpandDone =>
       LET live == ExpansionsIn(configs, call.audience, call.principals) IN
       /\ call.result \in live
       /\ \A registry \in RegistriesAgreeingOn(call.audience) : ExpansionsIn(registry, call.audience, call.principals) = live

\* A request was refused for its audience while the policies of another
\* audience of the registry grant it, and a registry with other audiences
\* than the live one was compared.
C18_Witness ==
  /\ IsAllowedDone /\ Configured /\ call.ret = FALSE
  /\ \E b \in DOMAIN configs \ {call.audience} : \A o \in IsAllowedResult(configs, b, call.request) : o.ret = TRUE
  /\ \E registry \in RegistriesAgreeingOn(call.audience) : DOMAIN registry # DOMAIN configs /\ Cardinality(DOMAIN registry) = 2

(***************************************************************************)
(* What the calls leave alone.                                             *)
(***************************************************************************)
\* C19: the live registry changes only in a LoadPolicies call that returns
\* nil; IsAllowed and ExpandPrincipals, whether the audience is configured
\* or not, leave it as it was; ExpandPrincipals for an audience that is not
\* configured returns its input principals as they are.
C19_OnlyReloadWrites ==
  [][/\ configs' # configs => (call'.op = "LoadPolicies" /\ call'.err = "")
     /\ (call.op = "idle" /\ call'.op \in {"IsAllowed", "ExpandPrincipals"}) => configs' = configs
     /\ (call'.op = "ExpandPrincipals" /\ call'.audience \notin DOMAIN configs) => call'.result = call'.principals]_vars

\* Two principals were expanded for an audience that a loaded registry does
\* not hold.
C19_Witness == ExpandDone /\ ~Configured /\ configs # EmptyMap /\ Len(call.principals) = 2 /\ call.result = call.principals

(***************************************************************************)
(* Repeated tags in an expansion.                                          *)
(***************************************************************************)
\* How many of the appended elements are the principal of tag T.
AppendedCount(T) == Cardinality({k \in 1..Len(Appended) : Appended[k] = "tag:" \o T})

\* C20: for every tag T of the audience, ExpandPrincipals appends "tag:T" as
\* many times as there are pairs of a member of T and a position of the
\* input that holds that member, and it appends nothing else; a tag with
\* two members in the input, or with one member twice in the input, is
\* appended twice.
C20_NoDeduplication ==
  (ExpandDone /\ Configured) =>
    /\ \A T \in DOMAIN TagsOf(call.audience) : AppendedCount(T) = MatchCount(TagsOf(call.audience), T, call.principals)
    /\ \A k \in 1..Len(Appended) : \E T \in DOMAIN TagsOf(call.audience) : Appended[k] = "tag:" \o T

\* One tag was appended twice for two different principals, both members
\* of it.
C20_Witness == ExpandDone /\ Configured /\ Len(call.principals) = 2 /\ call.principals[1] # call.principals[2] /\ \E T \in DOMAIN TagsOf(call.audience) : AppendedCount(T) = 2

====
